---- MODULE Spec2Model ----
(***************************************************************************)
(* Model of LLMChain (src/chains/llm_chain.rs): the builder methods, the   *)
(* grouping of messages in order_messages, and run/execute split at the    *)
(* single await on the chat backend.  The prompt, the chat backend and the *)
(* history store are trait objects whose implementations live elsewhere;   *)
(* they are modelled by their contracts, with every outcome they can       *)
(* produce chosen nondeterministically.                                    *)
(***************************************************************************)
EXTENDS Integers, Sequences, FiniteSets, TLC

\* ---------------------------------------------------------------- bounds
MaxRuns == 2          \* runs started on the chain
MaxConfig == 3        \* builder calls made on the chain

\* ---------------------------------------------------------------- values
\* Option<T>: None is the empty sequence, Some(v) the one-element sequence.
None == <<>>
Some(v) == <<v>>
IsSome(o) == Len(o) = 1
Unwrap(o) == o[1]

\* A message as the chain sees it: get_type() and get_content().
Msg(t, c) == [type |-> t, content |-> c]

SysHelpful == Msg("system", "You are helpful")
SysRule == Msg("system", "Be brief")
UserHi == Msg("user", "Hi")
UserOld == Msg("user", "Earlier")
AiOld == Msg("ai", "Welcome")

\* Blocks a caller may pass to with_header_prompts / sandwich_prompts.
HeaderChoices == { <<SysHelpful>>, <<>> }
SandwichChoices == { <<SysRule>> }

\* The history stores a caller may lend to the chain, and their contents
\* when the chain is built.
Stores == {1, 2}
InitHistories == { <<>>, <<UserOld, AiOld>> }

\* Inputs of the two run entry points.
MapInputs == { "name=luis" }
StringInputs == { "luis" }

\* Message lists to_chat_messages can render, and the error it can return.
Rendered == { <<UserHi>>, <<SysRule, UserHi>>, <<UserHi, SysRule, UserOld>> }

\* Responses the backend can produce, and the failures of generate.
Responses == { Msg("ai", "Hello"), Msg("ai", "Bye") }
BackendErrors == { "ApiError" }

\* Result<String, ApiError> of run, and the value before any run returned.
Ok(c) == [tag |-> "Ok", val |-> c]
Err(e) == [tag |-> "Err", val |-> e]
Pending == [tag |-> "None", val |-> ""]

\* ----------------------------------------------------------------- state
VARIABLES
    header_prompts,    \* Option<Vec<message>>
    sandwich_prompts,  \* Option<Vec<message>>
    memory,            \* Option<store borrowed by the chain>
    lent,              \* Option<store passed to the latest with_memory>
    store,             \* contents of every history store
    prompt,            \* values accumulated by the prompt
    pc,                \* "idle", or "awaiting" inside llm.generate(..).await
    entry,             \* which impl of ChainTrait::run was entered last
    rendered,          \* what to_chat_messages returned in the last run
    prompt_messages,   \* execute's argument, live across the await
    all_messages,      \* the groups handed to llm.generate
    generated,         \* what llm.generate returned in the last run
    result,            \* what the last run returned
    llm_calls,         \* number of llm.generate invocations
    runs,              \* number of runs started
    configs,           \* number of builder calls made
    hist0,             \* store contents when the last run started
    mem0,              \* self.memory when the last run started
    calls0             \* llm_calls when the last run started

vars == << header_prompts, sandwich_prompts, memory, lent, store, prompt, pc,
           entry, rendered, prompt_messages, all_messages, generated,
           result, llm_calls, runs, configs, hist0, mem0, calls0 >>

\* ------------------------------------------------------- collaborators
\* BaseChatMessageHistory::messages: the whole log, in order.
messages(h) == store[h]

\* BaseChatMessageHistory::add_message: append one message to a log.
add_message(log, m) == Append(log, m)

\* BasePromptValue::add_values: HashMapData is merged into the named
\* values, VecData is appended to the positional values.
add_values(p, data) ==
    IF data.kind = "HashMapData"
    THEN [p EXCEPT !.named = p.named \cup {data.val}]
    ELSE [p EXCEPT !.positional = Append(p.positional, data.val)]

HashMapData(m) == [kind |-> "HashMapData", val |-> m]
VecData(s) == [kind |-> "VecData", val |-> s]

\* ------------------------------------------------------------ LLMChain
\* order_messages with the sandwich block pushed before the history block.
order_messages_sandwich_first(header, mem, sandwich, msgs) ==
    (IF IsSome(header) THEN <<Unwrap(header)>> ELSE <<>>)
    \o (IF IsSome(sandwich) THEN <<Unwrap(sandwich)>> ELSE <<>>)
    \o << IF IsSome(mem) THEN messages(Unwrap(mem)) ELSE <<>> >>
    \o << msgs >>

\* order_messages that pushes the history group only when a memory is set.
order_messages_no_empty_slot(header, mem, sandwich, msgs) ==
    (IF IsSome(header) THEN <<Unwrap(header)>> ELSE <<>>)
    \o (IF IsSome(mem) THEN << messages(Unwrap(mem)) >> ELSE <<>>)
    \o (IF IsSome(sandwich) THEN <<Unwrap(sandwich)>> ELSE <<>>)
    \o << msgs >>

\* LLMChain::order_messages
order_messages(header, mem, sandwich, msgs) ==
    (IF IsSome(header) THEN <<Unwrap(header)>> ELSE <<>>)
    \o << IF IsSome(mem) THEN messages(Unwrap(mem)) ELSE <<>> >>
    \o (IF IsSome(sandwich) THEN <<Unwrap(sandwich)>> ELSE <<>>)
    \o << msgs >>

\* The loop of execute without the test on get_type().
RECURSIVE add_prompt_messages_unfiltered(_, _)
add_prompt_messages_unfiltered(log, msgs) ==
    IF msgs = <<>> THEN log
    ELSE add_prompt_messages_unfiltered(add_message(log, Head(msgs)),
                                        Tail(msgs))

\* The loop of execute with the test on get_type() inverted.
RECURSIVE add_prompt_messages_inverted(_, _)
add_prompt_messages_inverted(log, msgs) ==
    IF msgs = <<>> THEN log
    ELSE add_prompt_messages_inverted(
            IF Head(msgs).type = "system"
            THEN add_message(log, Head(msgs))
            ELSE log,
            Tail(msgs))

\* The loop of execute over prompt_messages: every message whose type is
\* not "system" is added to the log, in order.
RECURSIVE add_prompt_messages(_, _)
add_prompt_messages(log, msgs) ==
    IF msgs = <<>> THEN log
    ELSE add_prompt_messages(
            IF Head(msgs).type # "system"
            THEN add_message(log, Head(msgs))
            ELSE log,
            Tail(msgs))

\* update_memory that replaces the log by the messages of this run.
update_memory_overwrite(mem, st, msgs, resp) ==
    IF IsSome(mem)
    THEN [st EXCEPT ![Unwrap(mem)] =
            add_message(add_prompt_messages(<<>>, msgs), resp)]
    ELSE st

\* update_memory that records the response before the prompt messages.
update_memory_response_first(mem, st, msgs, resp) ==
    IF IsSome(mem)
    THEN [st EXCEPT ![Unwrap(mem)] =
            add_prompt_messages(add_message(st[Unwrap(mem)], resp), msgs)]
    ELSE st

\* update_memory that falls back to the first store when no memory is set.
update_memory_default_store(mem, st, msgs, resp) ==
    LET h == IF IsSome(mem) THEN Unwrap(mem) ELSE 1
    IN  [st EXCEPT ![h] =
            add_message(add_prompt_messages(st[h], msgs), resp)]

\* execute after a successful generate: the if-let on self.memory.
update_memory(mem, st, msgs, resp) ==
    IF IsSome(mem)
    THEN [st EXCEPT ![Unwrap(mem)] =
            add_message(add_prompt_messages(st[Unwrap(mem)], msgs), resp)]
    ELSE st

\* LLMChain::new, with the stores the caller owns.
Init ==
    /\ header_prompts = None
    /\ sandwich_prompts = None
    /\ memory = None
    /\ lent = None
    /\ store \in [Stores -> InitHistories]
    /\ prompt = [named |-> {}, positional |-> <<>>]
    /\ pc = "idle"
    /\ entry = "none"
    /\ rendered = Pending
    /\ prompt_messages = <<>>
    /\ all_messages = <<>>
    /\ generated = Pending
    /\ result = Pending
    /\ llm_calls = 0
    /\ runs = 0
    /\ configs = 0
    /\ hist0 = store
    /\ mem0 = None
    /\ calls0 = 0

run_frame == << entry, rendered, prompt_messages, all_messages, generated,
                result, llm_calls, runs, hist0, mem0, calls0, pc, store,
                prompt >>

\* with_memory that keeps a memory already attached.
with_memory_keep_first ==
    /\ pc = "idle"
    /\ configs < MaxConfig
    /\ \E h \in Stores :
          /\ memory' = IF IsSome(memory) THEN memory ELSE Some(h)
          /\ lent' = Some(h)
    /\ configs' = configs + 1
    /\ UNCHANGED << header_prompts, sandwich_prompts >>
    /\ UNCHANGED run_frame

\* LLMChain::with_memory
with_memory ==
    /\ pc = "idle"
    /\ configs < MaxConfig
    /\ \E h \in Stores :
          /\ memory' = Some(h)
          /\ lent' = Some(h)
    /\ configs' = configs + 1
    /\ UNCHANGED << header_prompts, sandwich_prompts >>
    /\ UNCHANGED run_frame

\* LLMChain::with_header_prompts
with_header_prompts ==
    /\ pc = "idle"
    /\ configs < MaxConfig
    /\ \E hp \in HeaderChoices : header_prompts' = Some(hp)
    /\ configs' = configs + 1
    /\ UNCHANGED << memory, lent, sandwich_prompts >>
    /\ UNCHANGED run_frame

\* LLMChain::sandwich_prompts (the builder method)
with_sandwich_prompts ==
    /\ pc = "idle"
    /\ configs < MaxConfig
    /\ \E sp \in SandwichChoices : sandwich_prompts' = Some(sp)
    /\ configs' = configs + 1
    /\ UNCHANGED << memory, lent, header_prompts >>
    /\ UNCHANGED run_frame

config_frame == << header_prompts, sandwich_prompts, memory, lent, configs >>

\* prompt_error that still makes the backend call before returning.
prompt_error_after_call ==
    /\ rendered' = Err("PromptError")
    /\ result' = Err("PromptError")
    /\ pc' = "idle"
    /\ prompt_messages' = <<>>
    /\ all_messages' = <<>>
    /\ llm_calls' = llm_calls + 1

\* run when to_chat_messages returned Err: map_err(ApiError::PromptError)?
\* returns from run.
prompt_error ==
    /\ rendered' = Err("PromptError")
    /\ result' = Err("PromptError")
    /\ pc' = "idle"
    /\ prompt_messages' = <<>>
    /\ all_messages' = <<>>
    /\ UNCHANGED llm_calls

\* execute_call with the turn recorded in the memory before the groups
\* are built, so that the history group already holds it.
execute_call_recorded_first(msgs) ==
    /\ prompt_messages' = msgs
    /\ all_messages' =
          LET groups == order_messages(header_prompts, memory,
                                       sandwich_prompts, msgs)
              k == IF IsSome(header_prompts) THEN 2 ELSE 1
          IN  [groups EXCEPT ![k] =
                  IF IsSome(memory) THEN add_prompt_messages(@, msgs) ELSE @]
    /\ llm_calls' = llm_calls + 1
    /\ result' = Pending
    /\ pc' = "awaiting"

\* execute_call with the system messages dropped before the groups are
\* built rather than when the memory is written.
execute_call_filtered(msgs) ==
    /\ prompt_messages' = msgs
    /\ all_messages' =
          order_messages(header_prompts, memory, sandwich_prompts,
                         SelectSeq(msgs, LAMBDA m : m.type # "system"))
    /\ llm_calls' = llm_calls + 1
    /\ result' = Pending
    /\ pc' = "awaiting"

\* execute up to the await: the groups are built from the chain as it is
\* now and handed to llm.generate.
execute_call(msgs) ==
    /\ prompt_messages' = msgs
    /\ all_messages' =
          order_messages(header_prompts, memory, sandwich_prompts, msgs)
    /\ llm_calls' = llm_calls + 1
    /\ result' = Pending
    /\ pc' = "awaiting"

\* Entering run, either impl: the run is counted and the stores, the
\* memory and the call count it starts from are noted.  Nothing before the
\* await touches the stores or the chain's configuration.
run_start ==
    /\ pc = "idle"
    /\ runs < MaxRuns
    /\ runs' = runs + 1
    /\ hist0' = store
    /\ mem0' = memory
    /\ calls0' = llm_calls
    /\ generated' = Pending
    /\ UNCHANGED store
    /\ UNCHANGED config_frame

\* ChainTrait<HashMap<String, String>>::run after add_values:
\* to_chat_messages, then the error return or execute.
run_hashmap_rest ==
    \/ prompt_error
    \/ \E msgs \in Rendered :
          /\ rendered' = Ok(msgs)
          /\ execute_call(msgs)

\* ChainTrait<HashMap<String, String>>::run
run_hashmap ==
    /\ run_start
    /\ entry' = "hashmap"
    /\ \E m \in MapInputs : prompt' = add_values(prompt, HashMapData(m))
    /\ run_hashmap_rest

\* The String impl with unwrap_or_default() in place of map_err(..)?: a
\* failed rendering goes on to execute with no messages.
run_string_rest_defaulting ==
    \/ /\ rendered' = Err("PromptError")
       /\ execute_call(<<>>)
    \/ \E msgs \in Rendered :
          /\ rendered' = Ok(msgs)
          /\ execute_call(msgs)

\* ChainTrait<String>::run after add_values: to_chat_messages, then the
\* error return or execute.
run_string_rest ==
    \/ prompt_error
    \/ \E msgs \in Rendered :
          /\ rendered' = Ok(msgs)
          /\ execute_call(msgs)

\* The String impl with add_values called only once the prompt has
\* rendered.
run_string_values_after_render ==
    /\ run_start
    /\ entry' = "string"
    /\ \E s \in StringInputs :
          \/ /\ prompt_error
             /\ prompt' = prompt
          \/ /\ \E msgs \in Rendered :
                   /\ rendered' = Ok(msgs)
                   /\ execute_call(msgs)
             /\ prompt' = add_values(prompt, VecData(s))

\* ChainTrait<String>::run
run_string ==
    /\ run_start
    /\ entry' = "string"
    /\ \E s \in StringInputs : prompt' = add_values(prompt, VecData(s))
    /\ run_string_rest

resume_frame == << entry, rendered, prompt_messages, all_messages,
                   llm_calls, runs, hist0, mem0, calls0, prompt >>

\* generate_ok on a chain whose order_messages moved the sandwich block
\* out of the chain (Option::take) instead of cloning it.
generate_ok_taking ==
    /\ pc = "awaiting"
    /\ \E ai_response \in Responses :
          /\ generated' = Ok(ai_response)
          /\ store' = update_memory(memory, store, prompt_messages,
                                    ai_response)
          /\ result' = Ok(ai_response.content)
    /\ pc' = "idle"
    /\ sandwich_prompts' = None
    /\ UNCHANGED resume_frame
    /\ UNCHANGED << header_prompts, memory, lent, configs >>

\* generate_ok with a second await between the loop over prompt_messages
\* and the recording of the response: the run is suspended again with the
\* turn already written.
generate_ok_suspending ==
    /\ pc = "awaiting"
    /\ store = hist0
    /\ store' = IF IsSome(memory)
                THEN [store EXCEPT ![Unwrap(memory)] =
                        add_prompt_messages(@, prompt_messages)]
                ELSE store
    /\ store' # store
    /\ UNCHANGED << pc, generated, result >>
    /\ UNCHANGED resume_frame
    /\ UNCHANGED config_frame

\* execute resumed with Ok(ai_response) from llm.generate
generate_ok ==
    /\ pc = "awaiting"
    /\ \E ai_response \in Responses :
          /\ generated' = Ok(ai_response)
          /\ store' = update_memory(memory, store, prompt_messages,
                                    ai_response)
          /\ result' = Ok(ai_response.content)
    /\ pc' = "idle"
    /\ UNCHANGED resume_frame
    /\ UNCHANGED config_frame

\* generate_err that calls llm.generate again instead of returning.
generate_err_retry ==
    /\ pc = "awaiting"
    /\ llm_calls < 2 * MaxRuns
    /\ llm_calls' = llm_calls + 1
    /\ UNCHANGED << pc, store, generated, result, entry, rendered,
                    prompt_messages, all_messages, runs, hist0, mem0,
                    calls0, prompt >>
    /\ UNCHANGED config_frame

\* generate_err that drops the error and returns an empty answer.
generate_err_swallowed ==
    /\ pc = "awaiting"
    /\ \E e \in BackendErrors : generated' = Err(e)
    /\ result' = Ok("")
    /\ pc' = "idle"
    /\ UNCHANGED store
    /\ UNCHANGED resume_frame
    /\ UNCHANGED config_frame

\* generate_err with the prompt messages recorded before the error is
\* looked at.
generate_err_recording ==
    /\ pc = "awaiting"
    /\ \E e \in BackendErrors :
          /\ generated' = Err(e)
          /\ result' = Err(e)
    /\ pc' = "idle"
    /\ store' = IF IsSome(memory)
                THEN [store EXCEPT ![Unwrap(memory)] =
                        add_prompt_messages(@, prompt_messages)]
                ELSE store
    /\ UNCHANGED resume_frame
    /\ UNCHANGED config_frame

\* execute resumed with Err from llm.generate: the ? operator returns it
generate_err ==
    /\ pc = "awaiting"
    /\ \E e \in BackendErrors :
          /\ generated' = Err(e)
          /\ result' = Err(e)
    /\ pc' = "idle"
    /\ UNCHANGED store
    /\ UNCHANGED resume_frame
    /\ UNCHANGED config_frame

\* the caller drops the future of run while it is suspended in the await
cancel ==
    /\ pc = "awaiting"
    /\ pc' = "idle"
    /\ result' = [tag |-> "Dropped", val |-> ""]
    /\ UNCHANGED << store, generated >>
    /\ UNCHANGED resume_frame
    /\ UNCHANGED config_frame

Next ==
    \/ with_memory
    \/ with_header_prompts
    \/ with_sandwich_prompts
    \/ run_hashmap
    \/ run_string
    \/ generate_ok
    \/ generate_err
    \/ cancel

Spec == Init /\ [][Next]_vars

\* ---------------------------------------------------------- properties
Bit(b) == IF b THEN 1 ELSE 0
NonSystem(msgs) == SelectSeq(msgs, LAMBDA m : m.type # "system")
IsPrefix(a, b) == Len(a) <= Len(b) /\ SubSeq(b, 1, Len(a)) = a
Last(q) == q[Len(q)]

\* C1: while the backend is being called, the groups it was handed are, in
\* this order: the header block if one is configured (first), the contents
\* of the attached history or an empty group, the sandwich block if one is
\* configured (immediately before the last group), and the current-turn
\* messages (last).
C1_FixedOrder ==
    pc = "awaiting" =>
        LET n == Len(all_messages)
            slot == 1 + Bit(IsSome(header_prompts))
        IN  /\ n >= 2
            /\ all_messages[n] = prompt_messages
            /\ IsSome(header_prompts) =>
                   all_messages[1] = Unwrap(header_prompts)
            /\ all_messages[slot] =
                   IF IsSome(memory) THEN store[Unwrap(memory)] ELSE <<>>
            /\ IsSome(sandwich_prompts) =>
                   /\ all_messages[n - 1] = Unwrap(sandwich_prompts)
                   /\ slot = n - 2
            /\ ~IsSome(sandwich_prompts) => slot = n - 1

\* A call in flight with header, history and sandwich all present and all
\* four groups different.
C1_Witness ==
    /\ pc = "awaiting"
    /\ IsSome(header_prompts) /\ IsSome(sandwich_prompts) /\ IsSome(memory)
    /\ Unwrap(header_prompts) # <<>>
    /\ store[Unwrap(memory)] # <<>>
    /\ Len(all_messages) = 4
    /\ Cardinality({all_messages[i] : i \in 1..4}) = 4

\* C2: after a run with a history attached whose backend call succeeded,
\* that history is the history at the start of the run, then the run's
\* non-system messages in their order, then the response as last entry;
\* the other stores are as they were.
C2_HistoryAfterSuccess ==
    (pc = "idle" /\ generated.tag = "Ok" /\ IsSome(mem0)) =>
        LET h == Unwrap(mem0)
        IN  /\ store[h] = hist0[h] \o NonSystem(prompt_messages)
                                   \o << generated.val >>
            /\ \A g \in Stores \ {h} : store[g] = hist0[g]

\* A successful run on a non-empty history whose turn held a system
\* message between two non-system ones.
C2_Witness ==
    /\ pc = "idle" /\ generated.tag = "Ok" /\ IsSome(mem0)
    /\ hist0[Unwrap(mem0)] # <<>>
    /\ prompt_messages = <<UserHi, SysRule, UserOld>>
    /\ Len(store[Unwrap(mem0)]) = Len(hist0[Unwrap(mem0)]) + 3

\* C3: after a run whose backend call failed, the run returned the backend's
\* error and every history store is exactly as it was when the run started.
C3_BackendFailureLeavesHistory ==
    (pc = "idle" /\ generated.tag = "Err") =>
        /\ result.tag = "Err"
        /\ result.val \in BackendErrors
        /\ store = hist0

\* A failed backend call on a chain with a history attached and non-system
\* messages in the turn.
C3_Witness ==
    /\ pc = "idle" /\ generated.tag = "Err" /\ IsSome(mem0)
    /\ NonSystem(prompt_messages) # <<>>
    /\ result.tag = "Err"

\* C4: after a run in which to_chat_messages failed, whichever entry point
\* was used, the run returned PromptError, llm.generate was not invoked
\* during the run and every history store is as it was.
C4_PromptFailure ==
    \A e \in {"hashmap", "string"} :
        (entry = e /\ rendered.tag = "Err") =>
            /\ pc = "idle"
            /\ result = Err("PromptError")
            /\ llm_calls = calls0
            /\ generated = Pending
            /\ store = hist0

\* A render failure in the second run of a chain with a history attached,
\* after a first run that did call the backend.
C4_Witness ==
    /\ rendered.tag = "Err" /\ IsSome(mem0)
    /\ entry = "string"
    /\ runs = 2 /\ llm_calls = 1
    /\ result = Err("PromptError")

\* C5: a run started with no history attached leaves every history store
\* as it was, and when its backend call succeeded it returned the content
\* of the response.
C5_NoHistoryNoEffect ==
    (runs > 0 /\ ~IsSome(mem0)) =>
        /\ store = hist0
        /\ (pc = "idle" /\ generated.tag = "Ok") =>
               result = Ok(generated.val.content)

\* A successful run without history whose turn held non-system messages.
C5_Witness ==
    /\ pc = "idle" /\ ~IsSome(mem0) /\ generated.tag = "Ok"
    /\ NonSystem(prompt_messages) # <<>>
    /\ result.tag = "Ok"
    /\ store = hist0

\* C6: a run that has returned is in exactly one of three shapes.  Ok: the
\* prompt rendered, the backend was called once and answered, and the
\* attached history (if any) ends with this run's messages and response.
\* PromptError: rendering failed, the backend was not called and no store
\* changed.  A backend error: the prompt rendered, the backend was called
\* once and failed with that error, and no store changed.
C6_Completed ==
    /\ result.tag = "Ok"
    /\ rendered.tag = "Ok"
    /\ generated.tag = "Ok"
    /\ llm_calls = calls0 + 1
    /\ IsSome(mem0) =>
           store[Unwrap(mem0)] = hist0[Unwrap(mem0)]
                                 \o NonSystem(prompt_messages)
                                 \o << generated.val >>

C6_StoppedAtRender ==
    /\ result = Err("PromptError")
    /\ rendered.tag = "Err"
    /\ generated = Pending
    /\ llm_calls = calls0
    /\ store = hist0

C6_StoppedAtCall ==
    /\ result.tag = "Err"
    /\ result.val \in BackendErrors
    /\ rendered.tag = "Ok"
    /\ generated = result
    /\ llm_calls = calls0 + 1
    /\ store = hist0

C6_NoPartialSuccess ==
    (pc = "idle" /\ runs > 0 /\ result.tag # "Dropped") =>
        /\ C6_Completed \/ C6_StoppedAtRender \/ C6_StoppedAtCall
        /\ ~(C6_Completed /\ C6_StoppedAtRender)
        /\ ~(C6_Completed /\ C6_StoppedAtCall)
        /\ ~(C6_StoppedAtRender /\ C6_StoppedAtCall)

\* A second run that stopped at the backend call, on a chain with history,
\* after a first run whose call was made.
C6_Witness ==
    /\ pc = "idle" /\ runs = 2 /\ calls0 = 1
    /\ IsSome(mem0)
    /\ C6_StoppedAtCall

\* C7: every history store only grows by appending.  No step removes or
\* changes an entry, the store contents at the start of a run are a prefix
\* of the contents afterwards, and after a run with a history attached the
\* length of that history is at least its length before plus the number
\* of messages the run added (none when the run failed).
C7_Added ==
    IF generated.tag = "Ok" THEN Len(NonSystem(prompt_messages)) + 1 ELSE 0

C7_RunGrowth ==
    /\ \A h \in Stores : IsPrefix(hist0[h], store[h])
    /\ (pc = "idle" /\ IsSome(mem0)) =>
           Len(store[Unwrap(mem0)]) >= Len(hist0[Unwrap(mem0)]) + C7_Added

C7_AppendOnly ==
    /\ []C7_RunGrowth
    /\ [][\A h \in Stores : IsPrefix(store[h], store'[h])]_vars

\* Two runs on the same non-empty history, the second successful, both
\* having added to it.
C7_Witness ==
    /\ pc = "idle" /\ runs = 2 /\ IsSome(mem0)
    /\ generated.tag = "Ok"
    /\ hist0[Unwrap(mem0)] \notin InitHistories
    /\ Len(store[Unwrap(mem0)]) > Len(hist0[Unwrap(mem0)]) + 1

\* C8: in every run llm.generate is invoked once if the prompt rendered and
\* not at all if it did not, and a run whose call failed has returned that
\* failure.
C8_NoRetry ==
    runs > 0 =>
        /\ llm_calls = calls0 + Bit(rendered.tag = "Ok")
        /\ llm_calls <= runs
        /\ (pc = "idle" /\ generated.tag = "Err") => result = generated

\* A failed call in the second run, the first run having made its call.
C8_Witness ==
    /\ pc = "idle" /\ generated.tag = "Err"
    /\ runs = 2 /\ calls0 = 1 /\ llm_calls = 2
    /\ result.tag = "Err"

\* C9: the backend is handed 2 groups plus one for a configured header
\* plus one for a configured sandwich; with no history attached the
\* history slot is an empty group; and the chain with header
\* [system:"You are helpful"], no sandwich, no history and turn [user:"Hi"]
\* hands over exactly [[system:"You are helpful"], [], [user:"Hi"]].
C9_IsExample ==
    /\ header_prompts = Some(<<SysHelpful>>)
    /\ sandwich_prompts = None
    /\ memory = None
    /\ prompt_messages = <<UserHi>>

C9_GroupCount ==
    pc = "awaiting" =>
        /\ Len(all_messages) =
              2 + Bit(IsSome(header_prompts)) + Bit(IsSome(sandwich_prompts))
        /\ ~IsSome(memory) =>
              all_messages[1 + Bit(IsSome(header_prompts))] = <<>>
        /\ C9_IsExample =>
              all_messages = << <<SysHelpful>>, <<>>, <<UserHi>> >>

\* The call of the example is in flight.
C9_Witness ==
    /\ pc = "awaiting"
    /\ C9_IsExample
    /\ Len(all_messages) = 3

\* C10: a run that returned Ok returned the content of the message
\* llm.generate produced, and with a history attached that content is the
\* content of the history's last entry.
C10_ReturnsContent ==
    (pc = "idle" /\ result.tag = "Ok") =>
        /\ generated.tag = "Ok"
        /\ result.val = generated.val.content
        /\ IsSome(mem0) =>
               Last(store[Unwrap(mem0)]).content = result.val

\* A successful run with history whose turn held non-system messages.
C10_Witness ==
    /\ pc = "idle" /\ result = Ok("Bye")
    /\ IsSome(mem0)
    /\ NonSystem(prompt_messages) # <<>>
    /\ Last(store[Unwrap(mem0)]) = Msg("ai", "Bye")

\* C11: no history store ever holds a message of type "system": the stores
\* start without one and no run adds one, although the turns rendered for
\* the runs do contain system messages.
C11_NoSystemPersisted ==
    \A h \in Stores :
        \A i \in 1..Len(store[h]) : store[h][i].type # "system"

\* Two successful runs have written to the same history and the turn of
\* the last one held a system message.
C11_Witness ==
    /\ pc = "idle" /\ runs = 2 /\ generated.tag = "Ok" /\ IsSome(mem0)
    /\ \E i \in 1..Len(prompt_messages) : prompt_messages[i].type = "system"
    /\ hist0[Unwrap(mem0)] \notin InitHistories
    /\ store[Unwrap(mem0)] # hist0[Unwrap(mem0)]

\* C12: the two impls of run differ only in the value given to add_values.
\* In every step that enters run, what the HashMap impl does after
\* add_values (the rendering result, execute's argument, the groups handed
\* to llm.generate, the call count, the value returned, the suspension)
\* is possible exactly when it is possible for the String impl; and once
\* the call has completed, the history update and the value returned are
\* the same function of the rendered messages and of generate's answer
\* for both entry points.
C12_SameCompletion ==
    \A e \in {"hashmap", "string"} :
        (entry = e /\ pc = "idle" /\ generated.tag # "None") =>
            /\ prompt_messages = rendered.val
            /\ store = IF generated.tag = "Ok" /\ IsSome(mem0)
                       THEN [hist0 EXCEPT ![Unwrap(mem0)] =
                               @ \o NonSystem(rendered.val)
                                 \o << generated.val >>]
                       ELSE hist0
            /\ result = IF generated.tag = "Ok"
                        THEN Ok(generated.val.content)
                        ELSE generated

C12_SameDownstream ==
    /\ [][runs' = runs + 1 => (run_hashmap_rest <=> run_string_rest)]_vars
    /\ []C12_SameCompletion

\* The String impl has completed a second run with history attached, after
\* a first run through the HashMap impl.
C12_Witness ==
    /\ entry = "string" /\ runs = 2
    /\ prompt.named # {} /\ Len(prompt.positional) = 1
    /\ pc = "idle" /\ generated.tag = "Ok" /\ IsSome(mem0)
    /\ store # hist0

\* C13: the memory of the chain is always the store passed to the latest
\* with_memory call; the history group of a call in flight is the content
\* of that store; and no step changes a store other than that one.
C13_Attached ==
    /\ memory = lent
    /\ (pc = "awaiting" /\ IsSome(lent)) =>
           all_messages[1 + Bit(IsSome(header_prompts))] = store[Unwrap(lent)]

C13_LatestMemoryOnly ==
    /\ []C13_Attached
    /\ [][\A g \in Stores : lent # Some(g) => store'[g] = store[g]]_vars

\* Store 1 was attached and written by a first run, then store 2 was
\* attached: the second run read its history group from store 2 and wrote
\* to store 2 only.
C13_Witness ==
    /\ lent = Some(2) /\ mem0 = Some(2) /\ configs >= 2
    /\ pc = "idle" /\ runs = 2 /\ generated.tag = "Ok"
    /\ store[1] \notin InitHistories
    /\ store[1] = hist0[1]
    /\ store[2] # hist0[2]
    /\ hist0[2] # hist0[1]
    /\ all_messages[1 + Bit(IsSome(header_prompts))] = hist0[2]

\* C14: no step of a run changes the header block or the sandwich block of
\* the chain (only the builder methods set them), and whenever such a step
\* leaves a call in flight, the header group and the sandwich group handed
\* to llm.generate are those blocks: runs with no builder call between them
\* send the same header group and the same sandwich group.
C14_BlocksSent ==
    /\ IsSome(header_prompts) => all_messages[1] = Unwrap(header_prompts)
    /\ IsSome(sandwich_prompts) =>
           all_messages[Len(all_messages) - 1] = Unwrap(sandwich_prompts)
    /\ Len(all_messages) =
           2 + Bit(IsSome(header_prompts)) + Bit(IsSome(sandwich_prompts))

C14_BlocksFixed ==
    [][configs' = configs =>
          /\ header_prompts' = header_prompts
          /\ sandwich_prompts' = sandwich_prompts
          /\ pc' = "awaiting" => C14_BlocksSent']_vars

\* The call of a second run is in flight, after a first run that succeeded
\* and with both blocks configured before the first run.
C14_Witness ==
    /\ pc = "awaiting" /\ runs = 2 /\ calls0 = 1
    /\ store # [h \in Stores |-> <<>>]
    /\ IsSome(header_prompts) /\ IsSome(sandwich_prompts)
    /\ Unwrap(header_prompts) # <<>>
    /\ C14_BlocksSent

\* C15: while a call is in flight with a history attached, the history
\* group it was handed is the history as it stood when the run started,
\* which is still the content of the store; and when a run with the same
\* history attached follows a successful one, its history group is the
\* earlier history, then the earlier turn's non-system messages, then the
\* earlier response.
C15_HistoryGroup == all_messages[1 + Bit(IsSome(header_prompts))]

C15_AtRunStart ==
    (pc = "awaiting" /\ IsSome(memory)) =>
        /\ C15_HistoryGroup = hist0[Unwrap(memory)]
        /\ C15_HistoryGroup = store[Unwrap(memory)]

C15_HistoryAsOfStart ==
    /\ []C15_AtRunStart
    /\ [][(/\ runs' = runs + 1 /\ pc' = "awaiting"
           /\ generated.tag = "Ok"
           /\ IsSome(memory) /\ mem0 = memory) =>
              C15_HistoryGroup' = hist0[Unwrap(memory)]
                                  \o NonSystem(prompt_messages)
                                  \o << generated.val >>]_vars

\* The call of a second run is in flight on the history that a first,
\* successful run has written to, and the second turn has non-system
\* messages of its own.
C15_Witness ==
    /\ pc = "awaiting" /\ runs = 2 /\ IsSome(memory)
    /\ store[Unwrap(memory)] \notin InitHistories
    /\ NonSystem(prompt_messages) # <<>>
    /\ C15_HistoryGroup = store[Unwrap(memory)]
    /\ Last(C15_HistoryGroup) \in Responses

\* C16: the last group handed to llm.generate is the whole list rendered
\* by the prompt, in its order, system messages included; the same run
\* then records only the non-system ones in the attached history.
C16_WholeTurnSent ==
    (runs > 0 /\ rendered.tag = "Ok") =>
        /\ Last(all_messages) = rendered.val
        /\ (pc = "idle" /\ generated.tag = "Ok" /\ IsSome(mem0)) =>
               store[Unwrap(mem0)] = hist0[Unwrap(mem0)]
                                     \o NonSystem(rendered.val)
                                     \o << generated.val >>

\* A successful run with history whose turn had a system message between
\* two others: the backend was handed all three, the history got two and
\* the response.
C16_Witness ==
    /\ pc = "idle" /\ generated.tag = "Ok" /\ IsSome(mem0)
    /\ rendered = Ok(<<UserHi, SysRule, UserOld>>)
    /\ Last(all_messages)[2] = SysRule
    /\ store[Unwrap(mem0)] =
          hist0[Unwrap(mem0)] \o <<UserHi, UserOld, generated.val>>

\* C17: every step that enters run hands the run's input to the prompt,
\* whatever the rendering then returns: a string input becomes the last
\* positional value, a map input is merged into the named values; and no
\* other step changes the prompt, so the input of a run that failed at
\* rendering or at the backend is still there when the next run renders.
C17_InputAdded ==
    /\ entry' = "string" =>
          /\ \E s \in StringInputs :
                prompt'.positional = Append(prompt.positional, s)
          /\ prompt'.named = prompt.named
    /\ entry' = "hashmap" =>
          /\ \E m \in MapInputs :
                /\ m \in prompt'.named
                /\ prompt'.named = prompt.named \cup {m}
          /\ prompt'.positional = prompt.positional

C17_ValuesAccumulate ==
    [][IF runs' = runs + 1 THEN C17_InputAdded ELSE prompt' = prompt]_vars

\* A second String run whose call is in flight, after a first String run
\* that failed at rendering: both inputs are among the positional values.
C17_Witness ==
    /\ runs = 2 /\ calls0 = 0 /\ llm_calls = 1
    /\ pc = "awaiting" /\ entry = "string"
    /\ Len(prompt.positional) = 2

\* C18: while a run is suspended in llm.generate, and after its future was
\* dropped there, every history store is as it was when the run started;
\* a store only changes in the step that ends the suspension; and at all
\* times a store holds either none or all of what the last run adds, never
\* a part of it.
C18_AllOrNothing ==
    /\ pc = "awaiting" => store = hist0
    /\ result.tag = "Dropped" => (store = hist0 /\ generated = Pending)
    /\ \A h \in Stores :
          \/ store[h] = hist0[h]
          \/ /\ mem0 = Some(h) /\ generated.tag = "Ok" /\ pc = "idle"
             /\ store[h] = hist0[h] \o NonSystem(prompt_messages)
                                    \o << generated.val >>

C18_WritesAfterAwait ==
    /\ []C18_AllOrNothing
    /\ [][store' # store => (pc = "awaiting" /\ pc' = "idle")]_vars

\* The future of a second run, with non-system messages in its turn, was
\* dropped during the await; the history holds what the first run wrote
\* and nothing of the second.
C18_Witness ==
    /\ result.tag = "Dropped" /\ pc = "idle" /\ runs = 2
    /\ IsSome(mem0)
    /\ NonSystem(prompt_messages) # <<>>
    /\ hist0[Unwrap(mem0)] \notin InitHistories
    /\ store = hist0
====
